---- MODULE Spec2Model ----
(***************************************************************************)
(* cpp-switcheroo: the compile-time checked match/when/otherwise/run       *)
(* builder over std::variant.  The model follows the current header (the   *)
(* index-based MatcherBuilder with the variadic `when`).  A construction   *)
(* (compile) error ends a chain: the chain is "rejected" at the call whose *)
(* instantiation fails and no later call of that chain exists.  The first, *)
(* flag-based MatcherBuilder (entry point Match) and the detail:: helpers   *)
(* by themselves have specifications of their own further down.            *)
(*                                                                         *)
(* Types are type ids 1, 2, ...; a variant with n alternatives is          *)
(* std::variant<1, ..., n>, so the slot of type t is t - 1; the type id    *)
(* n + 1 stands for a type that is not an alternative of the variant.      *)
(***************************************************************************)
EXTENDS Integers, Sequences, FiniteSets

\* ---------------------------------------------------------------- bounds
MaxAlts == 3
MaxSize == 2
MaxPayload == 1
MaxLen == 3

\* ------------------------------------------------------------- constants
NoValue == -1
AnyArg == -1
Nothing == -2
NoArg == 0
NoResult == [by |-> 0, arg |-> 0, cap |-> "none"]

Payloads == 1..MaxPayload

\* ------------------------------------------------------------- handlers
\* A caller-supplied callable: `takes` is the argument it can be invoked
\* with (AnyArg: a generic lambda, Nothing: no one-argument call, t: only the
\* payload of type t), `noargs` says that it is invocable without arguments,
\* `rt` is its result type and `cap` tells whether it owns captured state
\* that a move leaves in an unspecified state ("owned", a by-value
\* std::string capture) or not ("plain", captureless or trivially copyable).
hArg == [id |-> 1, takes |-> AnyArg, noargs |-> FALSE, rt |-> "int", cap |-> "plain"]
hNoArg == [id |-> 2, takes |-> Nothing, noargs |-> TRUE, rt |-> "int", cap |-> "plain"]
hOwned == [id |-> 3, takes |-> AnyArg, noargs |-> FALSE, rt |-> "int", cap |-> "owned"]
hBoth == [id |-> 4, takes |-> AnyArg, noargs |-> TRUE, rt |-> "int", cap |-> "plain"]
hStr == [id |-> 5, takes |-> AnyArg, noargs |-> FALSE, rt |-> "str", cap |-> "plain"]
hTyped == [id |-> 6, takes |-> 1, noargs |-> FALSE, rt |-> "int", cap |-> "plain"]

Handlers == {hArg, hNoArg, hOwned, hBoth, hStr, hTyped}

\* The fallback a flag-based builder starts with: []() {}
hDefault == [id |-> 7, takes |-> Nothing, noargs |-> TRUE, rt |-> "void", cap |-> "plain"]

HandlerById(i) == CHOOSE h \in Handlers \cup {hDefault} : h.id = i

\* std::is_invocable<Matcher, T>
InvocableWith(h, t) == h.takes = AnyArg \/ h.takes = t

\* std::is_invocable<Matcher>
InvocableWithoutArgs(h) == h.noargs

\* The body of a handler: its result is a function of the handler, of the
\* argument it was called with (NoArg for a call without arguments) and of
\* the captured state it reads ("intact", or "moved" for a moved-from one).
Body(h, a, st) == [by |-> h.id, arg |-> a, cap |-> st]

\* ------------------------------------------------------- detail:: helpers
\* std::variant<1, ..., n>
VariantTypes(n) == [i \in 1..n |-> i]

TypeIn(T, L) == \E i \in DOMAIN L : L[i] = T

\* Mutant: the position of the last occurrence.
IndexOf_Last(T, L) ==
    IF \A i \in DOMAIN L : L[i] # T THEN NoValue
    ELSE (CHOOSE i \in DOMAIN L :
            L[i] = T /\ \A j \in DOMAIN L : L[j] = T => j <= i) - 1

RECURSIVE IndexOf(_, _)
IndexOf(T, L) ==
    IF L = <<>> THEN NoValue
    ELSE IF Head(L) = T THEN 0
    ELSE LET r == IndexOf(T, Tail(L))
         IN  IF r = NoValue THEN NoValue ELSE 1 + r

\* std::make_index_sequence<n> as a tuple of integral constants
ToTupleOfIntegralConstants(n) == [i \in 1..n |-> i - 1]

\* Mutant: the types that are in the first tuple but not in the second.
MissingTypes_Swapped(T1, T2) ==
    SelectSeq(T1, LAMBDA t : \A i \in DOMAIN T2 : T2[i] # t)

RECURSIVE MissingTypes(_, _)
MissingTypes(T1, T2) ==
    IF T2 = <<>> THEN <<>>
    ELSE (IF TypeIn(Head(T2), T1) THEN <<>> ELSE <<Head(T2)>>)
         \o MissingTypes(T1, Tail(T2))

\* Mutant: a handler is wrapped only when it cannot take an argument.
maybeWrapLambdaWithInputArg_ArgFirst(lambda) ==
    [wrapped |-> InvocableWithoutArgs(lambda) /\ lambda.takes = Nothing,
     l |-> lambda.id, st |-> "intact"]

\* The callable stored in mMatchers: the handler itself, or the lambda that
\* takes one ignored argument and calls the handler without arguments.
maybeWrapLambdaWithInputArg(lambda) ==
    [wrapped |-> InvocableWithoutArgs(lambda), l |-> lambda.id, st |-> "intact"]

\* make_tuple(std::forward<T>(element)...): every replica is move-constructed
\* from the same temporary; the replica constructed first (`first`, which the
\* standard library chooses) takes the captured state, the others are built
\* from a moved-from source.
multiplyInTuple(element, n, first) ==
    [i \in 1..n |->
        IF HandlerById(element.l).cap = "owned" /\ i # first
        THEN [element EXCEPT !.st = "moved"]
        ELSE element]

\* The replicas that the standard library may construct first: the choice
\* shows only when a handler with owned captured state is replicated.
FirstChoices(h, n) == IF h.cap = "owned" /\ n >= 2 THEN 1..n ELSE {1}

\* Mutant: the stored callable always hands the payload on to the handler.
Call_PassArg(stored, arg) == Body(HandlerById(stored.l), arg, stored.st)

\* Calling a stored callable with the active alternative's payload.
Call(stored, arg) ==
    IF stored.wrapped
    THEN Body(HandlerById(stored.l), NoArg, stored.st)
    ELSE Body(HandlerById(stored.l), arg, stored.st)

\* ------------------------------------------------------------------ state
VARIABLES
    variantN,            \* number of alternatives of Variant
    given,               \* the value handed to match
    mVariant,            \* MatcherBuilder::mVariant
    mMatchers,           \* MatcherBuilder::mMatchers
    mMatcherArgIndexes,  \* MatcherBuilder::MatcherArgIndexesT
    ops,                 \* the calls of the chain so far, in order
    pc,                  \* "building", "done", "rejected" or "detail"
    rejectedAt,          \* the call that was a construction error
    result,              \* what run returned
    invoked,             \* the handler invocations that happened
    namedCalls,          \* the calls made on a builder that was given a name
    mMatcherReturnTypes, \* flag-based MatcherBuilder::mMatcherReturnTypes
    mMatcherArgTypes,    \* flag-based MatcherBuilder::mMatcherArgTypes
    mFallbackMatcher,    \* flag-based MatcherBuilder::mFallbackMatcher
    fallbackProvided,    \* flag-based MatcherBuilder<..., fallbackProvided>
    args,                \* the template arguments a detail:: helper is given
    returned             \* the ::value or ::type the helper has for them

\* The members that only the flag-based builder has.
flagVars ==
    <<mMatcherReturnTypes, mMatcherArgTypes, mFallbackMatcher, fallbackProvided>>

detailVars == <<args, returned>>

vars == <<variantN, given, mVariant, mMatchers, mMatcherArgIndexes, ops, pc,
          rejectedAt, result, invoked, namedCalls, flagVars, detailVars>>

Values(n) == [index : 0..(n - 1), payload : Payloads]

\* No helper was given arguments, and none was applied.
NoArgs == [T |-> 0, Tuple1 |-> <<>>, Tuple2 |-> <<>>]

NotApplied == [of |-> "none"]

\* The builder object that the member functions are called on.
this ==
    [mVariant |-> mVariant, mMatchers |-> mMatchers,
     mMatcherArgIndexes |-> mMatcherArgIndexes]

\* Mutant: the builder holds a default-constructed variant, not a copy.
match_DefaultVariant(variant) ==
    [mVariant |-> [variant EXCEPT !.index = 0], mMatchers |-> <<>>,
     mMatcherArgIndexes |-> <<>>]

\* The builder that match(variant) returns: it holds a copy of the variant.
match(variant) ==
    [mVariant |-> variant, mMatchers |-> <<>>, mMatcherArgIndexes |-> <<>>]

\* match(variant)
MatchInto(n, v) ==
    /\ variantN' = n
    /\ given' = v
    /\ mVariant' = match(v).mVariant
    /\ mMatchers' = <<>>
    /\ mMatcherArgIndexes' = <<>>
    /\ ops' = <<>>
    /\ pc' = "building"
    /\ rejectedAt' = "none"
    /\ result' = NoResult
    /\ invoked' = <<>>
    /\ namedCalls' = <<>>
    /\ UNCHANGED <<flagVars, detailVars>>

Init ==
    \E n \in 1..MaxAlts : \E v \in Values(n) :
        /\ variantN = n
        /\ given = v
        /\ mVariant = match(v).mVariant
        /\ mMatchers = <<>>
        /\ mMatcherArgIndexes = <<>>
        /\ ops = <<>>
        /\ pc = "building"
        /\ rejectedAt = "none"
        /\ result = NoResult
        /\ invoked = <<>>
        /\ namedCalls = <<>>
        /\ mMatcherReturnTypes = <<>>
        /\ mMatcherArgTypes = <<>>
        /\ mFallbackMatcher = hDefault.id
        /\ fallbackProvided = FALSE
        /\ args = NoArgs
        /\ returned = NotApplied

\* A program that ran one chain goes on to match another value; a rejected
\* chain is a program that does not build, so nothing follows it.
Match ==
    /\ pc = "done"
    /\ \E n \in 1..MaxAlts : \E v \in Values(n) : MatchInto(n, v)

Reject(call, op) ==
    /\ pc' = "rejected"
    /\ rejectedAt' = call
    /\ ops' = Append(ops, op)
    /\ UNCHANGED <<variantN, given, mVariant, mMatchers, mMatcherArgIndexes,
                   result, invoked, namedCalls, flagVars, detailVars>>

\* ------------------------------------------------------------------- when
WhenInvocable(kinds, h) ==
    \/ \A i \in DOMAIN kinds : InvocableWith(h, kinds[i])
    \/ InvocableWithoutArgs(h)

\* Mutant: only the first type of the list is looked up in the variant.
WhenTypesInVariant_FirstOnly(kinds, n) ==
    kinds = <<>> \/ TypeIn(kinds[1], VariantTypes(n))

WhenTypesInVariant(kinds, n) ==
    \A i \in DOMAIN kinds : TypeIn(kinds[i], VariantTypes(n))

WhenAccepted(kinds, h, n) ==
    /\ WhenInvocable(kinds, h)
    /\ WhenTypesInVariant(kinds, n)

\* The builder that when<kinds...>(h) returns, called on builder b.
when(b, kinds, h, first, n) ==
    [mVariant |-> b.mVariant,
     mMatchers |->
        b.mMatchers \o multiplyInTuple(maybeWrapLambdaWithInputArg(h),
                                       Len(kinds), first),
     mMatcherArgIndexes |->
        b.mMatcherArgIndexes
        \o [i \in 1..Len(kinds) |-> IndexOf(kinds[i], VariantTypes(n))]]

\* The type lists a when may name: the types of the variant and one type
\* that is not an alternative, at most `room` of them.
KindLists(n, room) == UNION {[1..k -> 1..(n + 1)] : k \in 0..room}

\* The size of a chain: the number of types its calls have named, a call
\* that names none (when<>, otherwise) counting one.
RECURSIVE Size(_)
Size(calls) ==
    IF calls = <<>> THEN 0
    ELSE (IF Head(calls).kinds = <<>> THEN 1 ELSE Len(Head(calls).kinds))
         + Size(Tail(calls))

When ==
    /\ pc = "building"
    /\ Size(ops) < MaxSize
    /\ \E kinds \in KindLists(variantN, MaxSize - Size(ops)) :
       \E h \in Handlers :
       \E first \in FirstChoices(h, Len(kinds)) :
        LET op == [op |-> "when", kinds |-> kinds, h |-> h.id,
                   first |-> first,
                   ok |-> WhenAccepted(kinds, h, variantN)]
            new == when(this, kinds, h, first, variantN)
        IN  IF WhenAccepted(kinds, h, variantN)
            THEN /\ mMatchers' = new.mMatchers
                 /\ mMatcherArgIndexes' = new.mMatcherArgIndexes
                 /\ mVariant' = new.mVariant
                 /\ ops' = Append(ops, op)
                 /\ UNCHANGED <<variantN, given, pc, rejectedAt,
                                result, invoked, namedCalls, flagVars,
                                detailVars>>
            ELSE Reject("when", op)

\* -------------------------------------------------------------- otherwise
OtherwiseAccepted(h) == InvocableWith(h, 0) \/ InvocableWithoutArgs(h)

\* Mutant: the fallback is registered for every slot, claimed or not.
MissingIndexes_All(indexes, n) == ToTupleOfIntegralConstants(n)

\* MissingIndexesType of a builder with the index tuple `indexes`.
MissingIndexes(indexes, n) ==
    MissingTypes(indexes, ToTupleOfIntegralConstants(n))

\* The builder that otherwise(h) returns, called on builder b.
otherwise(b, h, first, n) ==
    LET MissingIndexesType == MissingIndexes(b.mMatcherArgIndexes, n)
        fallbackMatchers ==
            multiplyInTuple(maybeWrapLambdaWithInputArg(h),
                            Len(MissingIndexesType), first)
    IN  [mVariant |-> b.mVariant,
         mMatchers |-> b.mMatchers \o fallbackMatchers,
         mMatcherArgIndexes |-> b.mMatcherArgIndexes \o MissingIndexesType]

Otherwise ==
    /\ pc = "building"
    /\ Size(ops) < MaxSize
    /\ \E h \in Handlers :
       \E first \in FirstChoices(h, Len(MissingIndexes(mMatcherArgIndexes,
                                                       variantN))) :
        LET op == [op |-> "otherwise", kinds |-> <<>>, h |-> h.id,
                   first |-> first,
                   ok |-> OtherwiseAccepted(h)]
            new == otherwise(this, h, first, variantN)
        IN  IF OtherwiseAccepted(h)
            THEN /\ mMatchers' = new.mMatchers
                 /\ mMatcherArgIndexes' = new.mMatcherArgIndexes
                 /\ mVariant' = new.mVariant
                 /\ ops' = Append(ops, op)
                 /\ UNCHANGED <<variantN, given, pc, rejectedAt,
                                result, invoked, namedCalls, flagVars,
                                detailVars>>
            ELSE Reject("otherwise", op)

\* -------------------------------------------------------------------- run
\* Mutant: the variant's own index is used as the position in mMatchers.
RunIndex_Direct(s, indexes) == IF s < Len(indexes) THEN s ELSE NoValue

\* The position in mMatchers of the callable for the alternative of slot s.
RunIndex(s, indexes) == IndexOf(s, indexes)

\* Mutant: the size of the index tuple is not checked.
RunSizeOk_NoCheck(indexes, n) == TRUE

\* Mutant: the size is compared with one less than the variant's size.
RunSizeOk_OffByOne(indexes, n) == Len(indexes) = n - 1

\* Mutant: any tuple at least as long as the variant passes.
RunSizeOk_AtLeast(indexes, n) == Len(indexes) >= n

RunSizeOk(indexes, n) == Len(indexes) = n

\* std::visit instantiates the visitor for every alternative: each needs a
\* position in mMatchers, a callable invocable with it, and one result type.
RunAccepted(matchers, indexes, n) ==
    /\ RunSizeOk(indexes, n)
    /\ \A t \in 1..n :
        LET argIndex == IndexOf(t, VariantTypes(n))
            index == RunIndex(argIndex, indexes)
        IN  /\ index # NoValue
            /\ \/ matchers[index + 1].wrapped
               \/ InvocableWith(HandlerById(matchers[index + 1].l), t)
    /\ \A i, j \in DOMAIN matchers :
        HandlerById(matchers[i].l).rt = HandlerById(matchers[j].l).rt

\* What run returns, called on builder b (a builder that run accepts).
run(b) ==
    LET index == RunIndex(b.mVariant.index, b.mMatcherArgIndexes)
    IN  Call(b.mMatchers[index + 1], b.mVariant.payload)

Run ==
    /\ pc = "building"
    /\ LET op == [op |-> "run", kinds |-> <<>>, h |-> 0, first |-> 1,
                  ok |-> RunAccepted(mMatchers, mMatcherArgIndexes, variantN)]
           value == run(this)
       IN  IF RunAccepted(mMatchers, mMatcherArgIndexes, variantN)
           THEN /\ pc' = "done"
                /\ result' = value
                /\ invoked' = Append(invoked, value)
                /\ ops' = Append(ops, op)
                /\ UNCHANGED <<variantN, given, mVariant, mMatchers,
                               mMatcherArgIndexes, rejectedAt, namedCalls,
                               flagVars, detailVars>>
           ELSE Reject("run", op)

Next == Match \/ When \/ Otherwise \/ Run

Spec == Init /\ [][Next]_vars

\* One chain, match(v) ... run(), by itself: the program does not go on to
\* match another value.
NextChain == When \/ Otherwise \/ Run

SpecChain == Init /\ [][NextChain]_vars

\* The registrations by themselves: a builder that is made, call after
\* call, and not yet run.
NextBuild == When \/ Otherwise

SpecBuild == Init /\ [][NextBuild]_vars

\* ------------------------------------------------ a builder with a name
\* A program that keeps a builder in a variable,
\*     const auto b = match(v);  or  match(v).when<K>(h);  or
\*     match(v).otherwise(h);
\* and then calls b.when<K>(h), b.otherwise(h) and b.run() on it, any number
\* of times and in any order.  The state's builder (`this`) is b, `ops` are
\* the calls that made it and namedCalls are the calls made on it, each with
\* the builder or the result that it returned.
NamedHandlers == {hArg, hOwned}

NoBuilder ==
    [mVariant |-> [index |-> NoValue, payload |-> NoArg], mMatchers |-> <<>>,
     mMatcherArgIndexes |-> <<>>]

\* Mutant: the call moves the handlers out of the receiver (tuple_cat of
\* std::move(mMatchers)) and leaves moved-from handlers behind.
ReceiverAfter_MovedFrom(b) ==
    [b EXCEPT !.mMatchers =
        [i \in DOMAIN b.mMatchers |->
            IF HandlerById(b.mMatchers[i].l).cap = "owned"
            THEN [b.mMatchers[i] EXCEPT !.st = "moved"]
            ELSE b.mMatchers[i]]]

\* Mutant: the call moves the variant out of the receiver (std::move(mVariant)
\* handed to the builder it returns) and leaves a moved-from payload behind.
ReceiverAfter_VariantMoved(b) == [b EXCEPT !.mVariant.payload = NoArg]

\* Mutant: the call consumes the receiver and leaves an empty builder behind.
ReceiverAfter_Consumed(b) ==
    [b EXCEPT !.mMatchers = <<>>, !.mMatcherArgIndexes = <<>>]

\* The receiver of when, otherwise or run after the call: the three are const
\* member functions that copy mVariant, mMatchers and mMatcherArgIndexes.
ReceiverAfter(b) == b

SetThis(b) ==
    /\ mVariant' = b.mVariant
    /\ mMatchers' = b.mMatchers
    /\ mMatcherArgIndexes' = b.mMatcherArgIndexes

\* const auto b = match(v).when<K>(h);
NameWhen ==
    /\ ops = <<>> /\ namedCalls = <<>>
    /\ When
    /\ ops'[1].ok /\ Len(ops'[1].kinds) = 1
    /\ HandlerById(ops'[1].h) \in NamedHandlers

\* const auto b = match(v).otherwise(h);
NameOtherwise ==
    /\ ops = <<>> /\ namedCalls = <<>>
    /\ Otherwise
    /\ ops'[1].ok
    /\ HandlerById(ops'[1].h) \in NamedHandlers

RejectNamed(call, c) ==
    /\ pc' = "rejected"
    /\ rejectedAt' = call
    /\ namedCalls' = Append(namedCalls, c)
    /\ UNCHANGED <<variantN, given, mVariant, mMatchers, mMatcherArgIndexes,
                   ops, result, invoked, flagVars, detailVars>>

\* auto x = b.when<K>(h);
CallWhen ==
    /\ pc = "building"
    /\ Len(namedCalls) < MaxSize
    /\ \E K \in 1..variantN : \E h \in NamedHandlers :
        LET accepted == WhenAccepted(<<K>>, h, variantN)
            c == [op |-> "when", kinds |-> <<K>>, h |-> h.id, first |-> 1,
                  ok |-> accepted,
                  out |-> IF accepted THEN when(this, <<K>>, h, 1, variantN)
                          ELSE NoBuilder,
                  result |-> NoResult]
        IN  IF accepted
            THEN /\ namedCalls' = Append(namedCalls, c)
                 /\ SetThis(ReceiverAfter(this))
                 /\ UNCHANGED <<variantN, given, ops, pc, rejectedAt, result,
                                invoked, flagVars, detailVars>>
            ELSE RejectNamed("when", c)

\* auto x = b.otherwise(h);
CallOtherwise ==
    /\ pc = "building"
    /\ Len(namedCalls) < MaxSize
    /\ \E h \in NamedHandlers :
       \E first \in FirstChoices(h, Len(MissingIndexes(mMatcherArgIndexes,
                                                       variantN))) :
        LET accepted == OtherwiseAccepted(h)
            c == [op |-> "otherwise", kinds |-> <<>>, h |-> h.id,
                  first |-> first, ok |-> accepted,
                  out |-> IF accepted THEN otherwise(this, h, first, variantN)
                          ELSE NoBuilder,
                  result |-> NoResult]
        IN  IF accepted
            THEN /\ namedCalls' = Append(namedCalls, c)
                 /\ SetThis(ReceiverAfter(this))
                 /\ UNCHANGED <<variantN, given, ops, pc, rejectedAt, result,
                                invoked, flagVars, detailVars>>
            ELSE RejectNamed("otherwise", c)

\* auto r = b.run();
CallRun ==
    /\ pc = "building"
    /\ Len(namedCalls) < MaxSize
    /\ LET accepted == RunAccepted(mMatchers, mMatcherArgIndexes, variantN)
           c == [op |-> "run", kinds |-> <<>>, h |-> 0, first |-> 1,
                 ok |-> accepted, out |-> NoBuilder,
                 result |-> IF accepted THEN run(this) ELSE NoResult]
       IN  IF accepted
           THEN /\ namedCalls' = Append(namedCalls, c)
                /\ result' = run(this)
                /\ invoked' = Append(invoked, run(this))
                /\ SetThis(ReceiverAfter(this))
                /\ UNCHANGED <<variantN, given, ops, pc, rejectedAt,
                               flagVars, detailVars>>
           ELSE RejectNamed("run", c)

NextNamed ==
    NameWhen \/ NameOtherwise \/ CallWhen \/ CallOtherwise \/ CallRun

SpecNamed == Init /\ [][NextNamed]_vars

\* ------------------------------------------------ the flag-based builder
\* The first MatcherBuilder (entry point Match, single-type when): it keeps
\* the matched types themselves (MatcherArgsT), the handlers' result types,
\* one fallback called without arguments, and the template flag
\* fallbackProvided.  Init is also the state after Match(given).
typeInTuple(T, Tuple) == \E i \in DOMAIN Tuple : Tuple[i] = T

TupleTypesMatchVariant(Tuple, n) ==
    \A i \in DOMAIN Tuple : typeInTuple(Tuple[i], VariantTypes(n))

TupleSizeMatchVariantSize(Tuple, n) == Len(Tuple) = n

CallableWithoutArgs(Callable) == InvocableWithoutArgs(Callable)

\* The handlers given to the flag-based builder.
FlagHandlers == {hArg, hNoArg, hStr, hTyped}

\* std::tuple<Matcher>{std::forward<Matcher>(matcher)}: the handler itself.
TupleOfMatcher(matcher) ==
    <<[wrapped |-> FALSE, l |-> matcher.id, st |-> "intact"]>>

\* The static_asserts of when<MatcherArg>(matcher), and invoke_result_t,
\* which needs the matcher to be invocable with MatcherArg.
FlagWhenAccepted(MatcherArg, matcher, n) ==
    /\ InvocableWith(matcher, MatcherArg)
    /\ matcher.rt = (mMatcherReturnTypes \o <<matcher.rt>>)[1]
    /\ ~typeInTuple(MatcherArg, mMatcherArgTypes)
    /\ TupleTypesMatchVariant(mMatcherArgTypes, n)

FlagReject(call, op) ==
    /\ pc' = "rejected"
    /\ rejectedAt' = call
    /\ ops' = Append(ops, op)
    /\ UNCHANGED <<variantN, given, mVariant, mMatchers, mMatcherArgIndexes,
                   result, invoked, namedCalls, flagVars, detailVars>>

\* when<MatcherArg>(matcher): the builder it returns is declared without the
\* sixth template argument, so its fallbackProvided is the default, false.
FlagWhen ==
    /\ pc = "building"
    /\ Size(ops) < MaxSize
    /\ \E MatcherArg \in 1..(variantN + 1) : \E matcher \in FlagHandlers :
        LET accepted == FlagWhenAccepted(MatcherArg, matcher, variantN)
            op == [op |-> "when", kinds |-> <<MatcherArg>>, h |-> matcher.id,
                   first |-> 1, ok |-> accepted]
        IN  IF accepted
            THEN /\ mMatchers' = mMatchers \o TupleOfMatcher(matcher)
                 /\ mMatcherReturnTypes'
                        = mMatcherReturnTypes \o <<matcher.rt>>
                 /\ mMatcherArgTypes' = mMatcherArgTypes \o <<MatcherArg>>
                 /\ fallbackProvided' = FALSE
                 /\ ops' = Append(ops, op)
                 /\ UNCHANGED <<variantN, given, mVariant,
                                mMatcherArgIndexes, pc, rejectedAt, result,
                                invoked, namedCalls, mFallbackMatcher,
                                detailVars>>
            ELSE FlagReject("when", op)

\* otherwise(fallbackMatcher)
FlagOtherwise ==
    /\ pc = "building"
    /\ Size(ops) < MaxSize
    /\ \E fallbackMatcher \in FlagHandlers :
        LET accepted == CallableWithoutArgs(fallbackMatcher)
            op == [op |-> "otherwise", kinds |-> <<>>,
                   h |-> fallbackMatcher.id, first |-> 1, ok |-> accepted]
        IN  IF accepted
            THEN /\ mFallbackMatcher' = fallbackMatcher.id
                 /\ fallbackProvided' = TRUE
                 /\ ops' = Append(ops, op)
                 /\ UNCHANGED <<variantN, given, mVariant, mMatchers,
                                mMatcherArgIndexes, pc, rejectedAt, result,
                                invoked, namedCalls, mMatcherReturnTypes,
                                mMatcherArgTypes, detailVars>>
            ELSE FlagReject("otherwise", op)

\* The result type of the visitor for the alternative ArgT.
FlagVisitType(ArgT) ==
    IF typeInTuple(ArgT, mMatcherArgTypes)
    THEN mMatcherReturnTypes[IndexOf(ArgT, mMatcherArgTypes) + 1]
    ELSE HandlerById(mFallbackMatcher).rt

\* The static_assert of run, and std::visit, which needs the visitor to have
\* one result type for all alternatives.
FlagRunAccepted(n) ==
    /\ fallbackProvided # TupleSizeMatchVariantSize(mMatcherArgTypes, n)
    /\ \A ArgT, ArgU \in 1..n : FlagVisitType(ArgT) = FlagVisitType(ArgU)

\* What the visitor returns for the active alternative.
FlagVisit ==
    LET ArgT == mVariant.index + 1
    IN  IF typeInTuple(ArgT, mMatcherArgTypes)
        THEN Call(mMatchers[IndexOf(ArgT, mMatcherArgTypes) + 1],
                  mVariant.payload)
        ELSE Body(HandlerById(mFallbackMatcher), NoArg, "intact")

\* run()
FlagRun ==
    /\ pc = "building"
    /\ LET accepted == FlagRunAccepted(variantN)
           op == [op |-> "run", kinds |-> <<>>, h |-> 0, first |-> 1,
                  ok |-> accepted]
       IN  IF accepted
           THEN /\ pc' = "done"
                /\ result' = FlagVisit
                /\ invoked' = Append(invoked, FlagVisit)
                /\ ops' = Append(ops, op)
                /\ UNCHANGED <<variantN, given, mVariant, mMatchers,
                               mMatcherArgIndexes, rejectedAt, namedCalls,
                               flagVars, detailVars>>
           ELSE FlagReject("run", op)

NextFlag == FlagWhen \/ FlagOtherwise \/ FlagRun

SpecFlag == Init /\ [][NextFlag]_vars

\* ------------------------------------------------ the detail:: helpers
\* The type-level helpers by themselves: a helper is instantiated with
\* template arguments (args) and has a ::value or a ::type (returned).  The
\* tuples are the tuples of at most MaxLen of the types 1..MaxAlts, a type
\* occurring any number of times.
Tuples == UNION {[1..k -> 1..MaxAlts] : k \in 0..MaxLen}

\* No chain is built while a helper is looked at.
InitDetail(arguments) ==
    /\ variantN = 1
    /\ given = [index |-> 0, payload |-> 1]
    /\ mVariant = given
    /\ mMatchers = <<>>
    /\ mMatcherArgIndexes = <<>>
    /\ ops = <<>>
    /\ pc = "detail"
    /\ rejectedAt = "none"
    /\ result = NoResult
    /\ invoked = <<>>
    /\ namedCalls = <<>>
    /\ mMatcherReturnTypes = <<>>
    /\ mMatcherArgTypes = <<>>
    /\ mFallbackMatcher = hDefault.id
    /\ fallbackProvided = FALSE
    /\ args \in arguments
    /\ returned = NotApplied

Apply(value) ==
    /\ pc = "detail"
    /\ returned' = value
    /\ UNCHANGED <<variantN, given, mVariant, mMatchers, mMatcherArgIndexes,
                   ops, pc, rejectedAt, result, invoked, namedCalls, flagVars,
                   args>>

\* MissingTypes<Tuple1, Tuple2>::type
InitMissingTypes ==
    InitDetail([T : {0}, Tuple1 : Tuples, Tuple2 : Tuples])

ApplyMissingTypes ==
    /\ returned = NotApplied
    /\ Apply([of |-> "MissingTypes",
              type |-> MissingTypes(args.Tuple1, args.Tuple2)])

SpecMissingTypes == InitMissingTypes /\ [][ApplyMissingTypes]_vars

\* TypeIn<T, Tuple>::value and IndexOf<T, Tuple>::value, T one of the types
\* of the tuples or MaxAlts + 1, which is in none.
InitIndexOf ==
    InitDetail([T : 1..(MaxAlts + 1), Tuple1 : Tuples, Tuple2 : {<<>>}])

ApplyTypeIn ==
    /\ returned.of # "TypeIn"
    /\ Apply([of |-> "TypeIn", value |-> TypeIn(args.T, args.Tuple1)])

ApplyIndexOf ==
    /\ returned.of # "IndexOf"
    /\ Apply([of |-> "IndexOf", value |-> IndexOf(args.T, args.Tuple1)])

NextIndexOf == ApplyTypeIn \/ ApplyIndexOf

SpecIndexOf == InitIndexOf /\ [][NextIndexOf]_vars

\* ================================================================ claims
\* What the chain registered, read from the calls that were made.
RECURSIVE ClaimedUpTo(_)
ClaimedUpTo(k) ==
    IF k = 0 THEN <<>>
    ELSE ClaimedUpTo(k - 1)
         \o (IF ops[k].op = "when" /\ ops[k].ok THEN ops[k].kinds ELSE <<>>)

Claimed == ClaimedUpTo(Len(ops))

ClaimedSet == {Claimed[i] : i \in DOMAIN Claimed}

AllTypes == 1..variantN

HasDuplicateClaim ==
    \E i, j \in DOMAIN Claimed : i # j /\ Claimed[i] = Claimed[j]

OtherwiseCalls == {i \in DOMAIN ops : ops[i].op = "otherwise" /\ ops[i].ok}

RunCalled == ops # <<>> /\ ops[Len(ops)].op = "run"

\* The handler of the first accepted when that names type t.
WhenFor(t) ==
    LET i == CHOOSE k \in DOMAIN ops :
                /\ ops[k].op = "when" /\ ops[k].ok
                /\ TypeIn(t, ops[k].kinds)
                /\ \A m \in 1..(k - 1) :
                     ~(ops[m].op = "when" /\ ops[m].ok /\ TypeIn(t, ops[m].kinds))
    IN  HandlerById(ops[i].h)

\* The handler the chain registered for type t: the handler of the when that
\* claimed it, else the fallback.
RegisteredFor(t) ==
    IF t \in ClaimedSet THEN {WhenFor(t).id}
    ELSE {ops[i].h : i \in OtherwiseCalls}

\* The handlers the accepted calls registered have one result type.
OneResultType ==
    \A i, j \in DOMAIN ops :
        (ops[i].ok /\ ops[j].ok /\ ops[i].op # "run" /\ ops[j].op # "run")
            => HandlerById(ops[i].h).rt = HandlerById(ops[j].h).rt

\* The results the specification allows for handler h registered for type t
\* when the payload is p: the handler itself, reading the captured state it
\* was given, called with the payload when it accepts one and without
\* arguments when it does not.  For a handler invocable both ways either call
\* is allowed here; which of the two is made is the subject of C21.
Expected(h, t, p) ==
    (IF InvocableWith(h, t) THEN {Body(h, p, "intact")} ELSE {})
    \cup (IF InvocableWithoutArgs(h) THEN {Body(h, NoArg, "intact")} ELSE {})

ActiveType == given.index + 1

\* when* then at most one otherwise, then run
WellShaped ==
    /\ Cardinality(OtherwiseCalls) <= 1
    /\ \A i \in OtherwiseCalls : \A j \in DOMAIN ops :
         (ops[j].op = "when") => j < i

\* C1: a chain that claims all N kinds with when and has no otherwise returns,
\* from run, the result of the handler registered for the active kind K,
\* invoked with K's payload.
C1_Claim ==
    (pc = "done" /\ OtherwiseCalls = {} /\ ClaimedSet = AllTypes)
        => result \in Expected(WhenFor(ActiveType), ActiveType, given.payload)

\* C2: exhaustiveness.  With no otherwise, run accepts the chain that claims
\* each of the N alternatives once (handlers of one result type), and run
\* rejects the chain that claims only a strict subset: no handler is invoked
\* and no result is produced.
C2_Exhaustive ==
    (RunCalled /\ \A i \in DOMAIN ops : ops[i].op # "otherwise")
        => /\ (ClaimedSet = AllTypes /\ ~HasDuplicateClaim /\ OneResultType)
                => pc = "done"
           /\ (ClaimedSet # AllTypes)
                => /\ pc = "rejected" /\ rejectedAt = "run"
                   /\ result = NoResult /\ invoked = <<>>

C2_Witness ==
    /\ pc = "done" /\ variantN >= 2
    /\ \A i \in DOMAIN ops : ops[i].op # "otherwise"
    /\ ClaimedSet = AllTypes

\* C3: when all N alternatives have been claimed by when and otherwise is
\* then added, run is rejected.
C3_Claim ==
    (RunCalled /\ \E i \in OtherwiseCalls :
                    {ClaimedUpTo(i)[k] : k \in DOMAIN ClaimedUpTo(i)} = AllTypes)
        => pc = "rejected"

\* C4: a chain that claims a strict subset S (some kind, not all) and then
\* calls otherwise(f):
\* run invokes f once and returns f's result when the active alternative is
\* not in S, and invokes the explicit handler (not f) when it is in S.
C4_Claim ==
    (pc = "done" /\ WellShaped /\ Cardinality(OtherwiseCalls) = 1
       /\ ClaimedSet # {} /\ ClaimedSet # AllTypes)
        => LET f == HandlerById(ops[CHOOSE i \in OtherwiseCalls : TRUE].h)
           IN  /\ Len(invoked) = 1
               /\ ActiveType \notin ClaimedSet
                    => /\ result \in Expected(f, 0, given.payload)
                       /\ invoked[1].by = f.id
               /\ ActiveType \in ClaimedSet
                    => /\ result \in Expected(WhenFor(ActiveType), ActiveType,
                                              given.payload)
                       /\ invoked[1].by = WhenFor(ActiveType).id

\* C5: exactly one handler invocation happens in a chain and it happens
\* during run: before run has returned no handler was invoked; run invokes
\* once, and in a chain match -> when* -> [otherwise] -> run the handler
\* invoked is the one of the active alternative (its when handler, or the
\* fallback when no when claimed it).
C5_OneInvocation ==
    /\ pc # "done" => invoked = <<>>
    /\ pc = "done" =>
        /\ Len(invoked) = 1
        /\ invoked[1] = result
        /\ WellShaped => invoked[1].by \in RegisteredFor(ActiveType)

C5_Witness ==
    /\ pc = "done" /\ WellShaped /\ Len(invoked) = 1
    /\ variantN = 3 /\ Len(Claimed) = 1
    /\ Cardinality(OtherwiseCalls) = 1
    /\ ActiveType \in ClaimedSet
    /\ \E i, j \in DOMAIN ops : ops[i].ok /\ ops[j].ok /\ ops[i].h # ops[j].h

\* C6: a chain in which some kind is claimed twice (in two when calls or
\* twice inside one) never produces a run result.
C6_NoDuplicateRuns ==
    HasDuplicateClaim => (pc # "done" /\ result = NoResult /\ invoked = <<>>)

C6_Witness ==
    /\ HasDuplicateClaim /\ RunCalled /\ rejectedAt = "run"
    /\ Len(mMatcherArgIndexes) = variantN

\* C7: a when that names a kind whose slot was claimed earlier in the same
\* chain is a construction error at that when call.
C7_Claim ==
    \A j \in DOMAIN ops :
        (ops[j].op = "when"
           /\ \E k \in DOMAIN ops[j].kinds :
                TypeIn(ops[j].kinds[k], ClaimedUpTo(j - 1)))
            => ~ops[j].ok

\* C8: a when that names a type that is not an alternative of the variant is
\* rejected at that when call, after any chain prefix: it is the chain's last
\* call and nothing was run.
C8_UnknownKindRejected ==
    \A j \in DOMAIN ops :
        (ops[j].op = "when"
           /\ \E k \in DOMAIN ops[j].kinds : ops[j].kinds[k] \notin AllTypes)
            => /\ ~ops[j].ok
               /\ j = Len(ops)
               /\ pc = "rejected" /\ rejectedAt = "when"
               /\ result = NoResult /\ invoked = <<>>

C8_Witness ==
    /\ Len(ops) = 2 /\ mMatchers # <<>>
    /\ ops[2].op = "when"
    /\ \E k \in DOMAIN ops[2].kinds : ops[2].kinds[k] \notin AllTypes
    /\ rejectedAt = "when"

\* C9: after otherwise has been called, a further when on the resulting
\* builder is rejected at that when call.
C9_Claim ==
    \A i \in OtherwiseCalls : \A j \in DOMAIN ops :
        (i < j /\ ops[j].op = "when") => ~ops[j].ok

\* C10: a second otherwise on a builder that already has a fallback is a
\* construction error.
C10_Claim ==
    \A i \in OtherwiseCalls : \A j \in DOMAIN ops :
        (i < j /\ ops[j].op = "otherwise") => ~ops[j].ok

\* ------------------------------------------------- one chain against another
\* The registrations of a chain: its calls but the run.
Registrations(chain) == SelectSeq(chain, LAMBDA c : c.op # "run")

\* The builder that the calls `chain` make of builder b, call after call; the
\* chain stops at the first call that is a construction error.
RECURSIVE ReplayFrom(_, _, _)
ReplayFrom(b, chain, n) ==
    IF chain = <<>> THEN [ok |-> TRUE, b |-> b]
    ELSE LET c == Head(chain)
             h == HandlerById(c.h)
         IN  IF c.op = "when"
             THEN IF WhenAccepted(c.kinds, h, n)
                  THEN ReplayFrom(when(b, c.kinds, h, c.first, n),
                                  Tail(chain), n)
                  ELSE [ok |-> FALSE, b |-> b]
             ELSE IF OtherwiseAccepted(h)
                  THEN ReplayFrom(otherwise(b, h, c.first, n), Tail(chain), n)
                  ELSE [ok |-> FALSE, b |-> b]

\* What match(v), the registrations `chain` and then run return: the result
\* of run, or NoResult when a call of the chain is a construction error.
ChainResult(chain, v, n) ==
    LET r == ReplayFrom(match(v), chain, n)
    IN  IF r.ok /\ RunAccepted(r.b.mMatchers, r.b.mMatcherArgIndexes, n)
        THEN run(r.b)
        ELSE NoResult

\* What the chain of this state came to.
Outcome == IF pc = "done" THEN result ELSE NoResult

\* when<A, B, ...>(h) written as when<A>(h), when<B>(h), ...
SplitWhen(c) ==
    [i \in 1..Len(c.kinds) |->
        [op |-> "when", kinds |-> <<c.kinds[i]>>, h |-> c.h, first |-> 1,
         ok |-> c.ok]]

RECURSIVE SplitAll(_)
SplitAll(chain) ==
    IF chain = <<>> THEN <<>>
    ELSE (IF Head(chain).op = "when" /\ Len(Head(chain).kinds) >= 2
          THEN SplitWhen(Head(chain)) ELSE <<Head(chain)>>)
         \o SplitAll(Tail(chain))

\* C11: a multi-kind when is sugar.  A chain that ended (run was called, or a
\* call was rejected) and has a when naming two or more kinds comes to what
\* the chain with that when written as one single-kind when per kind, with
\* the same handler, comes to: the same acceptance, the same claimed slots
\* and the same run result for the active alternative.
C11_Claim ==
    (pc # "building"
       /\ \E k \in DOMAIN ops : ops[k].op = "when" /\ Len(ops[k].kinds) >= 2)
        => LET split == SplitAll(Registrations(ops))
           IN  /\ ChainResult(split, given, variantN) = Outcome
               /\ pc = "done"
                    => ReplayFrom(match(given), split, variantN)
                           .b.mMatcherArgIndexes = mMatcherArgIndexes

\* A handler that can only be called without arguments.
TakesNoArguments(h) ==
    InvocableWithoutArgs(h) /\ \A t \in 0..(MaxAlts + 1) : ~InvocableWith(h, t)

\* The chain is when* [otherwise] run, every registration was accepted, every
\* alternative is registered once and the handlers have one result type.
Complete ==
    /\ RunCalled /\ WellShaped
    /\ ~HasDuplicateClaim
    /\ ClaimedSet \subseteq AllTypes
    /\ (ClaimedSet = AllTypes) # (OtherwiseCalls # {})
    /\ OneResultType

\* C12: argument-optional handlers.  A complete chain in which a handler h0
\* that takes no arguments is registered (by when for some kinds, or by
\* otherwise) is accepted by run; h0 is the handler invoked exactly when the
\* active alternative is one it was registered for, it is then invoked with
\* no payload, and the result is what h0 returns: the result of a handler
\* that receives the payload, ignores it and returns what h0 returns.
C12_ArgumentOptional ==
    (Complete /\ \E k \in DOMAIN ops :
                    ops[k].ok /\ ops[k].op # "run"
                    /\ TakesNoArguments(HandlerById(ops[k].h)))
        => /\ pc = "done"
           /\ Len(invoked) = 1
           /\ \A h \in {g \in Handlers : TakesNoArguments(g)} :
                /\ invoked[1].by = h.id <=> RegisteredFor(ActiveType) = {h.id}
                /\ invoked[1].by = h.id
                     => /\ invoked[1].arg = NoArg
                        /\ result = Body(h, NoArg, "intact")

C12_Witness ==
    /\ pc = "done" /\ Complete /\ variantN >= 2
    /\ Len(ops) = 3 /\ ops[1].op = "when" /\ ops[2].op = "otherwise"
    /\ TakesNoArguments(HandlerById(ops[2].h))
    /\ ~TakesNoArguments(HandlerById(ops[1].h))
    /\ ActiveType \notin ClaimedSet
    /\ result = Body(HandlerById(ops[2].h), NoArg, "intact")

\* The when calls of the chain and the registrations that are not whens.
WhenCalls == SelectSeq(Registrations(ops), LAMBDA c : c.op = "when")

OtherCalls == SelectSeq(Registrations(ops), LAMBDA c : c.op # "when")

\* Every when of the chain was made before every otherwise.
WhensFirst ==
    \A i, j \in DOMAIN ops :
        (ops[i].op = "otherwise" /\ ops[j].op = "when") => j < i

\* A number for a when call, different for different calls, that orders the
\* calls by the kinds they name: single-kind whens in the declaration order
\* of the variant's alternatives.
RECURSIVE KindsCode(_)
KindsCode(kinds) ==
    IF kinds = <<>> THEN 0
    ELSE KindsCode(Tail(kinds)) + Head(kinds) * ((MaxAlts + 2) ^ (Len(kinds) - 1))

CallKey(c) == (KindsCode(c.kinds) * 16 + c.h) * 16 + c.first

RECURSIVE InsertCall(_, _)
InsertCall(c, sorted) ==
    IF sorted = <<>> THEN <<c>>
    ELSE IF CallKey(c) <= CallKey(Head(sorted)) THEN <<c>> \o sorted
    ELSE <<Head(sorted)>> \o InsertCall(c, Tail(sorted))

RECURSIVE InDeclarationOrder(_)
InDeclarationOrder(chain) ==
    IF chain = <<>> THEN <<>>
    ELSE InsertCall(Head(chain), InDeclarationOrder(Tail(chain)))

\* C13: order independence.  A chain on which run was called, with its whens
\* made before its otherwise, comes to what the chain of the same whens made
\* in declaration order comes to: the same acceptance by run and the same
\* result for the active alternative.  The chains that differ only in the
\* order of their whens are the same chain in declaration order, so they all
\* come to the same.
C13_OrderIndependent ==
    (RunCalled /\ WhensFirst)
        => ChainResult(InDeclarationOrder(WhenCalls) \o OtherCalls,
                       given, variantN) = Outcome

C13_Witness ==
    /\ pc = "done" /\ Len(ops) = 3
    /\ ops[1].op = "when" /\ ops[2].op = "when"
    /\ ops[1].kinds = <<2>> /\ ops[2].kinds = <<1>>
    /\ ops[1].h # ops[2].h

\* The positions of mMatchers that are associated with the slot of type t.
HandlersOfSlot(t) ==
    {i \in DOMAIN mMatcherArgIndexes :
        mMatcherArgIndexes[i] = IndexOf(t, VariantTypes(variantN))}

\* C14: no runtime error path.  Whenever run was accepted, every alternative
\* of the variant has exactly one stored handler associated with its slot,
\* and whichever alternative is active, dispatch finds that handler and
\* returns its result.
C14_NoRuntimeError ==
    pc = "done"
        => /\ Len(mMatchers) = Len(mMatcherArgIndexes)
           /\ \A t \in AllTypes :
                /\ Cardinality(HandlersOfSlot(t)) = 1
                /\ HandlersOfSlot(t) \subseteq DOMAIN mMatchers
           /\ \A v \in Values(variantN) :
                LET r == run([this EXCEPT !.mVariant = v])
                IN  /\ r # NoResult
                    /\ \A i \in HandlersOfSlot(v.index + 1) :
                         r.by = mMatchers[i].l
           /\ result = run(this)

C14_Witness ==
    /\ pc = "done" /\ variantN = 3
    /\ Len(ops) = 3 /\ ops[1].op = "when" /\ ops[2].op = "otherwise"
    /\ ops[1].h # ops[2].h
    /\ ActiveType \notin ClaimedSet

\* C16: the variant is read-only for the matcher.  After any sequence of
\* match, when, otherwise and run the builder holds the active alternative
\* and the payload of the value that was given to match, and run dispatched
\* on exactly that alternative: it called the handler stored for the given
\* value's slot with the given value's payload.
C16_VariantReadOnly ==
    /\ mVariant = given
    /\ pc = "done"
        => /\ Cardinality(HandlersOfSlot(ActiveType)) = 1
           /\ \A i \in HandlersOfSlot(ActiveType) :
                result = Call(mMatchers[i], given.payload)

C16_Witness ==
    /\ pc = "done" /\ variantN = 3 /\ given.index = 2
    /\ Len(ops) = 3 /\ ops[1].op = "when" /\ ops[2].op = "otherwise"
    /\ ops[1].kinds = <<3>>
    /\ mVariant = given

\* The accepted registrations among the first k calls: an otherwise, or a
\* when that names a kind.
AcceptedUpTo(k) ==
    {i \in 1..k : /\ ops[i].ok
                  /\ \/ ops[i].op = "otherwise"
                     \/ ops[i].op = "when" /\ ops[i].kinds # <<>>}

\* The j-th call is a registration that nothing but its handler's result
\* type can make an error: the first otherwise of the chain with some
\* alternative left unclaimed, or a when made before any otherwise that names
\* kinds of the variant of which none was claimed before.
LegalButForResultType(j) ==
    /\ \A i \in 1..(j - 1) : ops[i].op = "when" /\ ops[i].ok
    /\ \/ /\ ops[j].op = "otherwise"
          /\ \E t \in AllTypes : ~TypeIn(t, ClaimedUpTo(j - 1))
       \/ /\ ops[j].op = "when" /\ ops[j].kinds # <<>>
          /\ \A k \in DOMAIN ops[j].kinds :
                /\ ops[j].kinds[k] \in AllTypes
                /\ ~TypeIn(ops[j].kinds[k], ClaimedUpTo(j - 1))

\* C17: result-type consistency is enforced at registration.  The first
\* accepted registration fixes the chain's result type, and a later when or
\* otherwise whose handler has another result type is rejected at that call.
C17_Claim ==
    \A j \in DOMAIN ops :
        (/\ LegalButForResultType(j)
         /\ AcceptedUpTo(j - 1) # {}
         /\ LET firstReg == CHOOSE i \in AcceptedUpTo(j - 1) :
                               \A m \in AcceptedUpTo(j - 1) : i <= m
            IN  HandlerById(ops[j].h).rt # HandlerById(ops[firstReg].h).rt)
            => ~ops[j].ok

\* C19: a claim needs at least one kind.  A when that names no kind at all
\* is rejected at that call.
C19_Claim ==
    \A j \in DOMAIN ops :
        (ops[j].op = "when" /\ ops[j].kinds = <<>>) => ~ops[j].ok

\* The named builder as the calls that made it left it.
Built == ReplayFrom(match(given), ops, variantN).b

\* C15: per-step immutability and chain independence.  Whatever calls were
\* made on a builder, the builder still holds the variant, the handlers and
\* the claimed slots it was made with; every builder that a when or an
\* otherwise on it returned is the builder that this call makes of the
\* receiver as it was made (the calls made before on the same receiver left
\* no trace in it), and a chain extended from it dispatches, whichever
\* alternative is active, to a handler of the receiver or to its own.
C15_Immutable ==
    LET built == Built
        handlersOfReceiver == {ops[k].h : k \in DOMAIN ops}
    IN  /\ this = built
        /\ \A i \in DOMAIN namedCalls :
            LET c == namedCalls[i]
            IN  (c.ok /\ c.op # "run")
                    => /\ c.out = ReplayFrom(built, <<c>>, variantN).b
                       /\ RunAccepted(c.out.mMatchers,
                                      c.out.mMatcherArgIndexes, variantN)
                            => \A v \in Values(variantN) :
                                 run([c.out EXCEPT !.mVariant = v]).by
                                    \in handlersOfReceiver \cup {c.h}

C15_Witness ==
    /\ variantN = 2 /\ Len(ops) = 1 /\ Len(namedCalls) = 2
    /\ ops[1].op = "when" /\ ops[1].h = hOwned.id
    /\ namedCalls[1].op = "otherwise" /\ namedCalls[2].op = "when"
    /\ namedCalls[1].h # namedCalls[2].h
    /\ \A i \in 1..2 :
         /\ namedCalls[i].ok
         /\ RunAccepted(namedCalls[i].out.mMatchers,
                        namedCalls[i].out.mMatcherArgIndexes, variantN)
    /\ run(namedCalls[1].out) # run(namedCalls[2].out)

SameCall(c, d) ==
    /\ c.op = d.op /\ c.kinds = d.kinds /\ c.h = d.h /\ c.first = d.first

\* C20: deterministic dispatch.  Two chains built by the same operations
\* from the same builder are accepted alike, are equal builders and return
\* equal results from run, whatever was called in between and in whichever
\* order they are run; two runs of one builder return equal results, and a
\* run leaves the builder as it was made (it keeps no count of its runs).
C20_Deterministic ==
    /\ \A i, j \in DOMAIN namedCalls :
        (i < j /\ SameCall(namedCalls[i], namedCalls[j]))
            => /\ namedCalls[i].ok = namedCalls[j].ok
               /\ namedCalls[i].out = namedCalls[j].out
               /\ namedCalls[i].result = namedCalls[j].result
               /\ (/\ namedCalls[i].op # "run" /\ namedCalls[i].ok
                   /\ RunAccepted(namedCalls[i].out.mMatchers,
                                  namedCalls[i].out.mMatcherArgIndexes,
                                  variantN))
                    => run(namedCalls[i].out) = run(namedCalls[j].out)
    /\ (\E i \in DOMAIN namedCalls : namedCalls[i].op = "run")
            => this = Built

C20_Witness ==
    /\ variantN = 2 /\ Len(ops) = 1 /\ ops[1].op = "when"
    /\ Len(namedCalls) = 2
    /\ namedCalls[1].op = "otherwise" /\ namedCalls[1].ok
    /\ SameCall(namedCalls[1], namedCalls[2])
    /\ RunAccepted(namedCalls[2].out.mMatchers,
                   namedCalls[2].out.mMatcherArgIndexes, variantN)
    /\ run(namedCalls[1].out) = run(namedCalls[2].out)
    /\ run(namedCalls[2].out).arg = given.payload

\* The handler that run invoked.
InvokedHandler == HandlerById(result.by)

\* C21: a registered handler that is invocable both with the payload of the
\* kind it is registered for and with no arguments is invoked by run with the
\* active alternative's payload.
C21_Claim ==
    (pc = "done" /\ InvocableWith(InvokedHandler, ActiveType)
       /\ InvocableWithoutArgs(InvokedHandler))
        => result.arg = given.payload

\* C21 as amended: the call without arguments comes first.  Whenever run
\* invoked a handler that is invocable without arguments it invoked it
\* without arguments, also when the handler is invocable with the payload;
\* a handler that is not invocable without arguments got the payload of the
\* active alternative.
C21_NoArgumentCallFirst ==
    pc = "done"
        => /\ InvocableWithoutArgs(InvokedHandler) => result.arg = NoArg
           /\ ~InvocableWithoutArgs(InvokedHandler)
                => result.arg = given.payload

C21_Witness ==
    /\ pc = "done" /\ variantN >= 2
    /\ InvokedHandler = hBoth
    /\ InvocableWith(hBoth, ActiveType)
    /\ result.arg = NoArg
    /\ \E k \in DOMAIN ops : ops[k].ok /\ ops[k].h = hArg.id

\* C22: one shared handler per multi-slot registration.  Every callable that
\* a when naming several kinds or an otherwise covering several slots stored
\* is the handler that was passed in, with the captured state it was passed
\* in with, so that run returns what that handler returns whichever of its
\* kinds is active (in chains when* [otherwise] that claim no kind twice).
C22_Claim ==
    (~HasDuplicateClaim /\ WellShaped)
        => /\ \A i \in DOMAIN mMatchers :
                mMatchers[i]
                    = maybeWrapLambdaWithInputArg(HandlerById(mMatchers[i].l))
           /\ pc = "done" => result \in Expected(InvokedHandler, ActiveType,
                                                 given.payload)

\* The slots of the set S in ascending order.
RECURSIVE Ascending(_)
Ascending(S) ==
    IF S = {} THEN <<>>
    ELSE LET least == CHOOSE s \in S : \A t \in S : s <= t
         IN  <<least>> \o Ascending(S \ {least})

\* The step is an accepted otherwise of the chain.
OtherwiseStep ==
    /\ pc = "building" /\ Len(ops') = Len(ops) + 1
    /\ ops'[Len(ops')].op = "otherwise" /\ ops'[Len(ops')].ok

\* C23: otherwise(f) registers f for exactly the slots not yet claimed: the
\* slots 0..N-1 without the claimed ones are appended in ascending order
\* after the existing entries, each with f; the entries that were there and
\* the handler found for every claimed slot are unchanged, and afterwards
\* every slot 0..N-1 has a handler.
C23_OtherwiseFrame ==
    [][OtherwiseStep =>
        LET claimed == {mMatcherArgIndexes[i] : i \in DOMAIN mMatcherArgIndexes}
            unclaimed == Ascending((0..(variantN - 1)) \ claimed)
            f == ops'[Len(ops')].h
        IN  /\ mMatcherArgIndexes' = mMatcherArgIndexes \o unclaimed
            /\ Len(mMatchers') = Len(mMatcherArgIndexes')
            /\ \A i \in DOMAIN mMatchers : mMatchers'[i] = mMatchers[i]
            /\ \A i \in (Len(mMatchers) + 1)..Len(mMatchers') :
                    mMatchers'[i].l = f
            /\ \A s \in claimed :
                    RunIndex(s, mMatcherArgIndexes')
                        = RunIndex(s, mMatcherArgIndexes)
            /\ \A s \in 0..(variantN - 1) :
                    LET index == RunIndex(s, mMatcherArgIndexes')
                    IN  /\ index # NoValue
                        /\ s \notin claimed => mMatchers'[index + 1].l = f
    ]_vars

C23_Witness ==
    /\ pc = "building" /\ variantN = 3 /\ Len(ops) = 2
    /\ ops[1].op = "when" /\ ops[1].kinds = <<2>>
    /\ ops[2].op = "otherwise" /\ ops[2].ok /\ ops[1].h # ops[2].h
    /\ mMatcherArgIndexes = <<1, 0, 2>>
    /\ \A i \in 2..3 : mMatchers[i].l = ops[2].h

\* The chain is match(v).otherwise(f).run() with a handler f that otherwise
\* accepts.
FallbackOnly ==
    /\ Len(ops) = 2
    /\ ops[1].op = "otherwise" /\ ops[1].ok
    /\ ops[2].op = "run"

\* C24: fallback-only chain.  match(v).otherwise(f).run() with no when at all
\* is accepted for every N >= 1, and run invokes f exactly once and returns
\* f's result whichever alternative is active.
C24_Claim ==
    FallbackOnly
        => LET f == HandlerById(ops[1].h)
           IN  /\ pc = "done"
               /\ Len(invoked) = 1
               /\ invoked[1].by = f.id
               /\ result \in Expected(f, 0, given.payload)

\* C25: in the flag-based builder, a when<K> whose K is not an alternative
\* of the variant is rejected by that same when call, after every chain
\* prefix, also when it is the last claim before run.
C25_Claim ==
    \A j \in DOMAIN ops :
        (ops[j].op = "when" /\ ops[j].kinds[1] \notin AllTypes)
            => ~ops[j].ok

\* C26: in the flag-based builder the fallback-provided flag is monotone
\* along a chain: once otherwise was accepted every later builder of the
\* chain records that a fallback was provided, and run rejects the chain that
\* has a fallback and claims for all N kinds, in whatever order they came.
C26_Claim ==
    /\ (OtherwiseCalls # {} /\ pc = "building") => fallbackProvided
    /\ (RunCalled /\ OtherwiseCalls # {} /\ AllTypes \subseteq ClaimedSet)
            => pc = "rejected"

\* The types that occur in a tuple.
TypesOf(Tuple) == {Tuple[i] : i \in DOMAIN Tuple}

\* C27: MissingTypes<T1, T2> is list difference.  For all tuples T1 and T2
\* its type holds exactly the elements of T2 that do not occur in T1, in
\* T2's order, and it is the empty tuple when every element of T2 occurs in
\* T1.
C27_ListDifference ==
    returned.of = "MissingTypes"
        => LET T1 == args.Tuple1
               T2 == args.Tuple2
               kept == {i \in DOMAIN T2 : T2[i] \notin TypesOf(T1)}
           IN  /\ Len(returned.type) = Cardinality(kept)
               /\ \A i \in kept :
                    returned.type[Cardinality({j \in kept : j <= i})] = T2[i]
               /\ TypesOf(T2) \subseteq TypesOf(T1) => returned.type = <<>>

C27_Witness ==
    /\ returned.of = "MissingTypes"
    /\ args.Tuple1 = <<2>> /\ args.Tuple2 = <<3, 2, 1>>
    /\ returned.type = <<3, 1>>

\* C28: IndexOf<T, L> is the zero-based position of the first occurrence of
\* T in L for every T that occurs in L and has no value when T does not
\* occur in L; TypeIn<T, L> is true exactly when T occurs in L, so IndexOf
\* has a value exactly when TypeIn is true.
C28_FirstOccurrence ==
    LET T == args.T
        L == args.Tuple1
        occurrences == {i \in DOMAIN L : L[i] = T}
    IN  /\ returned.of = "TypeIn"
            => /\ returned.value = (occurrences # {})
               /\ returned.value = (IndexOf(T, L) # NoValue)
        /\ returned.of = "IndexOf"
            => /\ occurrences = {} => returned.value = NoValue
               /\ occurrences # {}
                    => /\ returned.value + 1 \in occurrences
                       /\ \A i \in occurrences : returned.value + 1 <= i
               /\ TypeIn(T, L) = (returned.value # NoValue)

C28_Witness ==
    /\ returned.of = "IndexOf"
    /\ args.T = 2 /\ args.Tuple1 = <<1, 2, 2>>
    /\ returned.value = 1

====
